---------------------------- MODULE Spec2Model ----------------------------
(***************************************************************************)
(* Model of the intraday trading bot: the worker loop (run_loop), one       *)
(* cycle of the state machine (tick), the risk manager, the signal          *)
(* evaluator and the order-execution wrappers.                              *)
(*                                                                          *)
(* Prices and equity are integers.  Percentages of the configuration are    *)
(* exact fractions [num, den]; floor(a/b) is a \div b.  An optional value   *)
(* (Python's None or a value) is the empty tuple or a one-element tuple.    *)
(* All clock reads of one cycle observe the same instant, and the clock     *)
(* never goes backwards.                                                    *)
(***************************************************************************)
EXTENDS Integers, Sequences, FiniteSets, TLC

VARIABLES
    ctx,                 \* _Ctx: the mutable bot context
    trades_today,        \* RiskManager.trades_today
    cfg,                 \* StrategyConfig fields the core reads
    shutdown_requested,  \* bot._shutdown_requested
    pc,                  \* position of run_loop
    now,                 \* the last reading of the ET wall clock
    led,                 \* ledger of what reached the broker (observer)
    cyc,                 \* record of the last cycle: inputs, steps, effects (observer)
    flatten_calls,       \* calls of close_all_positions made by run_loop on shutdown
    szq,                 \* compute_shares under study: inputs and result
    sgq,                 \* evaluate_entry / evaluate_exit under study: inputs and result
    rmq                  \* RiskManager under study: the last call and its result

vars == <<ctx, trades_today, cfg, shutdown_requested, pc, now, led, cyc,
          flatten_calls, szq, sgq, rmq>>

-----------------------------------------------------------------------------
(* Bounds of the model *)

MaxDay == 2
MaxTradesCfg == 2

Days == 0..MaxDay
\* minutes after midnight ET: before the open, the open, the end of the entry
\* window, the start of the flatten window, the close
TimesOfDay == {540, 570, 600, 955, 960}
ClockPoints == [day : Days, tod : TimesOfDay]

PriorCloses == {100}
TodayOpens == {98, 102}
LatestPrices == {95, 97, 99}
FillPrices == {96}
Equities == {0, 2000}

-----------------------------------------------------------------------------
(* Optional values *)

None == <<>>
Some(v) == <<v>>
Val(o) == o[1]

Min(a, b) == IF a <= b THEN a ELSE b
Max(a, b) == IF a >= b THEN a ELSE b
Abs(a) == IF a < 0 THEN -a ELSE a

-----------------------------------------------------------------------------
(* Configuration: src/config.py *)

band_lookback == 20
band_mult == 2
entry_window_minutes == 30
use_vwap_exit == TRUE
gap_threshold == [num |-> 5, den |-> 1000]
risk_pct_default == [num |-> 1, den |-> 100]
stop_pct_default == [num |-> 1, den |-> 100]

\* the configurations explored: no trade allowed or MaxTradesCfg of them a
\* day, in both dry-run modes
Configs ==
    [max_trades_per_day : {0, MaxTradesCfg}, dry_run : BOOLEAN,
     risk_pct : {risk_pct_default}, stop_pct : {stop_pct_default},
     use_vwap_exit : {use_vwap_exit}]

-----------------------------------------------------------------------------
(* Market hours: src/market_hours.py *)

MARKET_OPEN == 570
MARKET_CLOSE == 960
EOD_FLATTEN_BUFFER_SECONDS == 300

\* day 0 is a Thursday (Monday is weekday 0)
weekday(n) == (n.day + 3) % 7

is_market_open(n) ==
    IF weekday(n) >= 5 THEN FALSE
    ELSE MARKET_OPEN <= n.tod /\ n.tod < MARKET_CLOSE

\* variant: the end of the window is included
is_within_entry_window_Inclusive(n, window_minutes) ==
    MARKET_OPEN <= n.tod /\ n.tod <= MARKET_OPEN + window_minutes

is_within_entry_window(n, window_minutes) ==
    MARKET_OPEN <= n.tod /\ n.tod < MARKET_OPEN + window_minutes

\* variant: the buffer is counted after the close instead of before it
time_until_close_seconds_PastClose(n) ==
    (MARKET_CLOSE - n.tod) * 60 + EOD_FLATTEN_BUFFER_SECONDS

time_until_close_seconds(n) == (MARKET_CLOSE - n.tod) * 60

ClockLeq(a, b) == a.day < b.day \/ (a.day = b.day /\ a.tod <= b.tod)

-----------------------------------------------------------------------------
(* Indicators: src/indicators.py.  A bar window is represented by what the  *)
(* indicators read from it: its length, the mean and the sample standard    *)
(* deviation of the closes of its last band_lookback bars (None when        *)
(* pandas yields NaN), the close of its newest bar and its VWAP.            *)

EmptyBars == [len |-> 0, mean |-> None, std |-> None, close |-> None, vwap |-> None]
ShortBars == [len |-> 10, mean |-> None, std |-> None, close |-> Some(95), vwap |-> Some(96)]
FullBars == [len |-> 60, mean |-> Some(97), std |-> Some(1), close |-> Some(95), vwap |-> Some(96)]
BarWindows == {EmptyBars, ShortBars, FullBars}

\* variant: the gap is taken from the open to the prior close
compute_gap_pct_Inverted(prior_close, today_open) ==
    IF prior_close <= 0 THEN [num |-> 0, den |-> 1]
    ELSE [num |-> prior_close - today_open, den |-> prior_close]

\* the gap as an exact fraction with a positive denominator
compute_gap_pct(prior_close, today_open) ==
    IF prior_close <= 0 THEN [num |-> 0, den |-> 1]
    ELSE [num |-> today_open - prior_close, den |-> prior_close]

compute_bands(bars, lookback, mult) ==
    IF bars.len < lookback THEN None
    ELSE IF bars.mean = None \/ bars.std = None THEN None
    ELSE Some([mean |-> Val(bars.mean),
               std |-> Val(bars.std),
               upper |-> Val(bars.mean) + mult * Val(bars.std),
               lower |-> Val(bars.mean) - mult * Val(bars.std)])

compute_vwap(bars) == bars.vwap

-----------------------------------------------------------------------------
(* Signals: src/strategy.py.  The result is a direction / a reason, or      *)
(* "none".                                                                  *)

evaluate_entry(bars, latest_price, prior_close, today_open) ==
    LET gap_pct == compute_gap_pct(prior_close, today_open)
        bands == compute_bands(bars, band_lookback, band_mult)
    IN  IF Abs(gap_pct.num) * gap_threshold.den < gap_threshold.num * gap_pct.den
        THEN "none"
        ELSE IF bands = None THEN "none"
        ELSE IF gap_pct.num < 0 /\ latest_price <= Val(bands).lower THEN "long"
        ELSE IF gap_pct.num > 0 /\ latest_price >= Val(bands).upper THEN "short"
        ELSE "none"

\* latest_price <= entry_price * (1 - stop_pct), resp. >= entry_price * (1 + stop_pct)
StopHit(c, latest_price, entry_price, direction) ==
    IF direction = "long"
    THEN latest_price * c.stop_pct.den <= entry_price * (c.stop_pct.den - c.stop_pct.num)
    ELSE latest_price * c.stop_pct.den >= entry_price * (c.stop_pct.den + c.stop_pct.num)

\* variant: mean reversion is tested before the stop
evaluate_exit_MeanFirst(c, bars, latest_price, entry_price, direction, force_eod) ==
    LET bands == compute_bands(bars, band_lookback, band_mult)
        vwap == compute_vwap(bars)
    IN  IF force_eod THEN "end_of_day"
        ELSE IF /\ bands # None
                /\ \/ direction = "long" /\ latest_price >= Val(bands).mean
                   \/ direction = "short" /\ latest_price <= Val(bands).mean
             THEN "mean_reversion"
        ELSE IF StopHit(c, latest_price, entry_price, direction) THEN "stop_loss"
        ELSE IF /\ c.use_vwap_exit
                /\ vwap # None
                /\ \/ direction = "long" /\ latest_price >= Val(vwap)
                   \/ direction = "short" /\ latest_price <= Val(vwap)
             THEN "vwap_reversion"
        ELSE "none"

evaluate_exit(c, bars, latest_price, entry_price, direction, force_eod) ==
    LET bands == compute_bands(bars, band_lookback, band_mult)
        vwap == compute_vwap(bars)
    IN  IF force_eod THEN "end_of_day"
        ELSE IF StopHit(c, latest_price, entry_price, direction) THEN "stop_loss"
        ELSE IF /\ bands # None
                /\ \/ direction = "long" /\ latest_price >= Val(bands).mean
                   \/ direction = "short" /\ latest_price <= Val(bands).mean
             THEN "mean_reversion"
        ELSE IF /\ c.use_vwap_exit
                /\ vwap # None
                /\ \/ direction = "long" /\ latest_price >= Val(vwap)
                   \/ direction = "short" /\ latest_price <= Val(vwap)
             THEN "vwap_reversion"
        ELSE "none"

-----------------------------------------------------------------------------
(* Risk manager: src/risk.py *)

\* variant: the counter is left as it is
reset_daily_Forgotten == trades_today

reset_daily == 0

\* variant: the cap is compared with <=
can_trade_OffByOne(c, t) == t <= c.max_trades_per_day

can_trade(c, t) == t < c.max_trades_per_day

\* variant: the counter is not incremented
record_trade_NoCount(t) == t

\* variant: a trade is counted twice
record_trade_Twice(t) == t + 2

record_trade(t) == t + 1

\* variant: the 10%-of-equity cap is rounded up
compute_shares_RoundsUp(c, equity, entry_price) ==
    IF entry_price <= 0 \/ equity <= 0 THEN 0
    ELSE IF entry_price * c.stop_pct.num <= 0 THEN 0
    ELSE Max(Min((equity * c.risk_pct.num * c.stop_pct.den)
                     \div (entry_price * c.stop_pct.num * c.risk_pct.den),
                 (equity * 10 + entry_price * 100 - 1) \div (entry_price * 100)), 0)

\* variant: the 10%-of-equity cap is left out
compute_shares_NoCap(c, equity, entry_price) ==
    IF entry_price <= 0 \/ equity <= 0 THEN 0
    ELSE IF entry_price * c.stop_pct.num <= 0 THEN 0
    ELSE Max((equity * c.risk_pct.num * c.stop_pct.den)
                 \div (entry_price * c.stop_pct.num * c.risk_pct.den), 0)

\* risk_amount = equity * risk_pct and loss_per_share = entry_price * stop_pct
\* are kept as numerators over the denominators of the two percentages
compute_shares(c, equity, entry_price) ==
    IF entry_price <= 0 \/ equity <= 0 THEN 0
    ELSE LET risk_num == equity * c.risk_pct.num
             risk_den == c.risk_pct.den
             loss_num == entry_price * c.stop_pct.num
             loss_den == c.stop_pct.den
         IN  IF loss_num <= 0 THEN 0
             ELSE LET shares == (risk_num * loss_den) \div (loss_num * risk_den)
                      max_shares_by_equity == (equity * 10) \div (entry_price * 100)
                  IN  Max(Min(shares, max_shares_by_equity), 0)

-----------------------------------------------------------------------------
(* Order execution: src/execution.py.  The broker client either accepts an  *)
(* order (an immediate fill, with or without a reported price) or raises.   *)
(* api is TRUE when the broker client was called, delta is the change of    *)
(* the position held at the broker.                                         *)

\* the outcomes of the broker client that an order wrapper can meet
OrderOutcomes(dry_run) ==
    IF dry_run THEN {[kind |-> "unused", price |-> None]}
    ELSE {[kind |-> "raise", price |-> None], [kind |-> "fill", price |-> None]}
         \cup {[kind |-> "fill", price |-> Some(p)] : p \in FillPrices}

Signed(direction, qty) == IF direction = "long" THEN qty ELSE -qty

submit_entry_order(direction, qty, dry_run, out) ==
    IF dry_run
    THEN [fill |-> Some([qty |-> qty, filled_avg_price |-> None]),
          api |-> FALSE, delta |-> 0]
    ELSE IF out.kind = "raise"
    THEN [fill |-> None, api |-> TRUE, delta |-> 0]
    ELSE [fill |-> Some([qty |-> qty, filled_avg_price |-> out.price]),
          api |-> TRUE, delta |-> Signed(direction, qty)]

\* variant: the dry-run flag is not looked at
submit_exit_order_Live(direction, qty, dry_run, out) ==
    IF out.kind = "raise"
    THEN [fill |-> None, api |-> TRUE, delta |-> 0]
    ELSE [fill |-> Some([qty |-> qty, filled_avg_price |-> out.price]),
          api |-> TRUE, delta |-> -Signed(direction, qty)]

submit_exit_order(direction, qty, dry_run, out) ==
    IF dry_run
    THEN [fill |-> Some([qty |-> qty, filled_avg_price |-> None]),
          api |-> FALSE, delta |-> 0]
    ELSE IF out.kind = "raise"
    THEN [fill |-> None, api |-> TRUE, delta |-> 0]
    ELSE [fill |-> Some([qty |-> qty, filled_avg_price |-> out.price]),
          api |-> TRUE, delta |-> -Signed(direction, qty)]

\* ok: the broker closed every position; the wrapper swallows a failure
close_all_positions(dry_run, ok, net) ==
    IF dry_run THEN [api |-> FALSE, net |-> net]
    ELSE [api |-> TRUE, net |-> IF ok THEN 0 ELSE net]

-----------------------------------------------------------------------------
(* The bot context and the observers *)

States == {"IDLE", "ARMED", "IN_TRADE", "LOCKED"}

NewCtx ==
    [state |-> "IDLE", entry_price |-> None, direction |-> None, trade_qty |-> 0,
     prior_close |-> None, today_open |-> None, last_trading_day |-> None]

\* led.net: shares held at the broker through the bot's orders (signed);
\* led.api: the broker client was asked to submit an order or to close all;
\* led.entries: entry orders filled since the last day rollover;
\* led.locked: a cycle has ended in LOCKED since the last day rollover;
\* led.sig_in_cycle: the shutdown signal arrived while a cycle was running;
\* led.last_entry: direction and quantity of the most recent filled entry;
\* led.open: an entry has filled since the position fields were last cleared
NewLedger ==
    [net |-> 0, api |-> FALSE, entries |-> 0, locked |-> FALSE, sig_in_cycle |-> FALSE,
     last_entry |-> None, open |-> FALSE]

\* the record of a cycle; every field is what the cycle read or did
NoCycle ==
    [ran |-> FALSE, pre |-> NewCtx, pre_trades |-> 0, pre_net |-> 0,
     rollover |-> FALSE, resets |-> 0, market_open |-> FALSE, eod |-> FALSE, in_window |-> FALSE,
     step |-> "none", fetched |-> {}, can_trade |-> "none",
     entry_signal |-> "unevaluated", exit_signal |-> "unevaluated",
     latest_price |-> None, price_source |-> "none", equity |-> None, qty |-> None,
     pre_open |-> FALSE,
     entry_order |-> None, exit_order |-> None, close_all |-> FALSE,
     api |-> FALSE, raised |-> FALSE]

Init ==
    /\ ctx = NewCtx
    /\ trades_today = 0
    /\ cfg \in Configs
    /\ shutdown_requested = FALSE
    /\ pc = "check"
    /\ now = [day |-> 0, tod |-> 540]
    /\ led = NewLedger
    /\ cyc = NoCycle
    /\ flatten_calls = 0
    /\ szq = None
    /\ sgq = None
    /\ rmq = None

-----------------------------------------------------------------------------
(* One cycle: bot.tick.  n is the clock reading of the cycle; c, t, l, h    *)
(* are the context, the trade counter, the ledger and the cycle record as   *)
(* the cycle has changed them so far.                                       *)

\* the cycle returns (or raises: run_loop catches it) and the loop goes to sleep
Ret(n, c, t, l, h) ==
    /\ ctx' = c
    /\ trades_today' = t
    /\ led' = [l EXCEPT !.locked = @ \/ c.state = "LOCKED"]
    /\ cyc' = h
    /\ now' = n
    /\ pc' = "sleep"
    /\ UNCHANGED <<cfg, shutdown_requested, flatten_calls, szq, sgq, rmq>>

\* variant: the error escapes run_loop and ends the process
Raise_Escapes(n, c, t, l, h) ==
    /\ ctx' = c
    /\ trades_today' = t
    /\ led' = l
    /\ cyc' = [h EXCEPT !.step = "raised", !.raised = TRUE]
    /\ now' = n
    /\ pc' = "done"
    /\ UNCHANGED <<cfg, shutdown_requested, flatten_calls, szq, sgq, rmq>>

\* variant: the handler of the error puts the state back to IDLE
Raise_ResetsState(n, c, t, l, h) ==
    Ret(n, [c EXCEPT !.state = "IDLE"], t, l, [h EXCEPT !.step = "raised", !.raised = TRUE])

\* lines 125-129: an error raised by the cycle is caught and logged
Raise(n, c, t, l, h) == Ret(n, c, t, l, [h EXCEPT !.step = "raised", !.raised = TRUE])

Order(direction, qty, r) ==
    Some([direction |-> direction, qty |-> qty, filled |-> r.fill # None,
          price |-> IF r.fill = None THEN None ELSE Val(r.fill).filled_avg_price])

Book(l, r) == [l EXCEPT !.net = @ + r.delta, !.api = @ \/ r.api]

\* variant: the rollover leaves the state where it was
NewDay_KeepsState(c, today) ==
    [c EXCEPT !.last_trading_day = Some(today),
              !.prior_close = None, !.today_open = None,
              !.entry_price = None, !.direction = None, !.trade_qty = 0]

\* variant: the cached gap data survive the rollover
NewDay_KeepsGap(c, today) ==
    [c EXCEPT !.last_trading_day = Some(today),
              !.entry_price = None, !.direction = None, !.trade_qty = 0,
              !.state = "IDLE"]

\* lines 145-152: a new trading day
NewDay(c, today) ==
    [c EXCEPT !.last_trading_day = Some(today),
              !.prior_close = None, !.today_open = None,
              !.entry_price = None, !.direction = None, !.trade_qty = 0,
              !.state = "IDLE"]

\* variant: the cached gap data are dropped outside market hours
MarketClosed_ClearsGap(c) ==
    [c EXCEPT !.state = "IDLE", !.prior_close = None, !.today_open = None]

\* variant: a LOCKED context stays LOCKED outside market hours
MarketClosed_KeepsLocked(c) ==
    IF c.state \notin {"IDLE", "LOCKED"} THEN [c EXCEPT !.state = "IDLE"] ELSE c

\* lines 156-157: outside market hours
MarketClosed(c) == IF c.state # "IDLE" THEN [c EXCEPT !.state = "IDLE"] ELSE c

\* variant: a LOCKED context is armed again
ShouldArm_AlsoLocked(c) == c.state \in {"IDLE", "LOCKED"}

\* line 192: the cycle arms
ShouldArm(c) == c.state = "IDLE"

\* variant: the value is fetched again although it is cached
FetchResults_Refetch(cached, values) == {None} \cup {Some(v) : v \in values}

\* lines 164-171: what the context holds after the lazy fetch of one gap value
FetchResults(cached, values) ==
    IF cached = None THEN {None} \cup {Some(v) : v \in values} ELSE {cached}

\* variant: the flatten clears the position but leaves the state
EodClear_KeepsState(c) ==
    [c EXCEPT !.entry_price = None, !.direction = None, !.trade_qty = 0]

\* variant: the quantity is not cleared
EodClear_KeepsQty(c) ==
    [c EXCEPT !.entry_price = None, !.direction = None, !.state = "LOCKED"]

\* lines 185-188: the end-of-day flatten clears the position and locks
EodClear(c) ==
    [c EXCEPT !.entry_price = None, !.direction = None, !.trade_qty = 0,
              !.state = "LOCKED"]

\* variant: the quantity of a short position is stored with its sign
OpenPosition_SignedQty(c, fill, latest_price, direction, qty) ==
    [c EXCEPT !.entry_price = IF fill.filled_avg_price # None
                              THEN fill.filled_avg_price ELSE Some(latest_price),
              !.direction = Some(direction),
              !.trade_qty = Signed(direction, qty),
              !.state = "IN_TRADE"]

\* variant: the entry price is the latest price even when the fill has one
OpenPosition_AlwaysLatest(c, fill, latest_price, direction, qty) ==
    [c EXCEPT !.entry_price = Some(latest_price),
              !.direction = Some(direction),
              !.trade_qty = qty,
              !.state = "IN_TRADE"]

\* lines 242-246 (record_trade apart): a filled entry
OpenPosition(c, fill, latest_price, direction, qty) ==
    [c EXCEPT !.entry_price = IF fill.filled_avg_price # None
                              THEN fill.filled_avg_price ELSE Some(latest_price),
              !.direction = Some(direction),
              !.trade_qty = qty,
              !.state = "IN_TRADE"]

\* variant: a filled exit arms again without asking can_trade
ClosePosition_Arms(c, t) ==
    [c EXCEPT !.entry_price = None, !.direction = None, !.trade_qty = 0,
              !.state = "ARMED"]

\* variant: a filled exit goes back to IDLE
ClosePosition_Idles(c, t) ==
    [c EXCEPT !.entry_price = None, !.direction = None, !.trade_qty = 0,
              !.state = "IDLE"]

\* lines 278-286: a filled exit
ClosePosition(c, t) ==
    [c EXCEPT !.entry_price = None, !.direction = None, !.trade_qty = 0,
              !.state = IF can_trade(cfg, t) THEN "ARMED" ELSE "LOCKED"]

\* lines 178-189
TickEod(n, c, t, l, h) ==
    IF c.state = "IN_TRADE" /\ c.direction # None
    THEN \E out \in OrderOutcomes(cfg.dry_run) :
            LET r == submit_exit_order(Val(c.direction), c.trade_qty, cfg.dry_run, out)
            IN  Ret(n, EodClear(c), t, [Book(l, r) EXCEPT !.open = FALSE],
                    [h EXCEPT !.step = "eod_flatten", !.api = r.api,
                              !.exit_order = Order(Val(c.direction), c.trade_qty, r)])
    ELSE Ret(n, [c EXCEPT !.state = "LOCKED"], t, l, [h EXCEPT !.step = "eod_lock"])

\* lines 211-247
TickArmed(n, c, t, l, h, bars, latest_price) ==
    IF ~can_trade(cfg, t)
    THEN Ret(n, [c EXCEPT !.state = "LOCKED"], t, l,
             [h EXCEPT !.step = "trade_limit", !.can_trade = "false"])
    ELSE IF ~is_within_entry_window(n, entry_window_minutes)
    THEN Ret(n, c, t, l, [h EXCEPT !.step = "outside_window", !.can_trade = "true"])
    ELSE \E raises \in BOOLEAN :
        LET h1 == [h EXCEPT !.can_trade = "true", !.in_window = TRUE]
            signal_entry == evaluate_entry(bars, latest_price,
                                           Val(c.prior_close), Val(c.today_open))
            h2 == [h1 EXCEPT !.entry_signal = signal_entry]
        IN  IF raises THEN Raise(n, c, t, l, h1)
            ELSE IF signal_entry = "none" THEN Ret(n, c, t, l, [h2 EXCEPT !.step = "no_entry_signal"])
            ELSE \E equity \in {None} \cup {Some(e) : e \in Equities} :
                LET h3 == [h2 EXCEPT !.fetched = @ \cup {"equity"}, !.equity = equity]
                    qty == compute_shares(cfg, Val(equity), latest_price)
                    h4 == [h3 EXCEPT !.qty = Some(qty)]
                IN  IF equity = None THEN Raise(n, c, t, l, h3)
                    ELSE IF qty <= 0 THEN Ret(n, c, t, l, [h4 EXCEPT !.step = "zero_qty"])
                    ELSE \E out \in OrderOutcomes(cfg.dry_run) :
                        LET r == submit_entry_order(signal_entry, qty, cfg.dry_run, out)
                            h5 == [h4 EXCEPT !.api = r.api,
                                             !.entry_order = Order(signal_entry, qty, r)]
                        IN  IF r.fill = None
                            THEN Ret(n, c, t, Book(l, r), [h5 EXCEPT !.step = "entry_failed"])
                            ELSE Ret(n, OpenPosition(c, Val(r.fill), latest_price, signal_entry, qty),
                                     record_trade(t),
                                     [Book(l, r) EXCEPT
                                         !.entries = @ + 1, !.open = TRUE,
                                         !.last_entry = Some([direction |-> signal_entry,
                                                              qty |-> qty])],
                                     [h5 EXCEPT !.step = "entry_filled"])

\* lines 250-287
TickInTrade(n, c, t, l, h, bars, latest_price) ==
    IF c.entry_price = None \/ c.direction = None
    THEN \E ok \in BOOLEAN :
            LET r == close_all_positions(cfg.dry_run, ok, l.net)
            IN  Ret(n, [c EXCEPT !.state = "ARMED"], t,
                    [l EXCEPT !.net = r.net, !.api = @ \/ r.api],
                    [h EXCEPT !.step = "force_flat", !.close_all = TRUE, !.api = r.api])
    ELSE \E raises \in BOOLEAN :
        LET exit_signal == evaluate_exit(cfg, bars, latest_price, Val(c.entry_price),
                                         Val(c.direction), FALSE)
            h1 == [h EXCEPT !.exit_signal = exit_signal]
        IN  IF raises THEN Raise(n, c, t, l, h)
            ELSE IF exit_signal = "none" THEN Ret(n, c, t, l, [h1 EXCEPT !.step = "no_exit_signal"])
            ELSE \E out \in OrderOutcomes(cfg.dry_run) :
                LET r == submit_exit_order(Val(c.direction), c.trade_qty, cfg.dry_run, out)
                    h2 == [h1 EXCEPT !.api = r.api,
                                     !.exit_order = Order(Val(c.direction), c.trade_qty, r)]
                IN  IF r.fill = None
                    THEN Ret(n, c, t, Book(l, r), [h2 EXCEPT !.step = "exit_failed"])
                    ELSE Ret(n, ClosePosition(c, t), t, [Book(l, r) EXCEPT !.open = FALSE],
                             [h2 EXCEPT !.step = "exit_filled"])

\* variant: the fallback price is the VWAP of the newest bar
LatestPrice_UsesVwap(quote, bars) ==
    IF quote # None THEN Val(quote) ELSE Val(bars.vwap)

\* lines 206-208: the quote, or the close of the newest bar
LatestPrice(quote, bars) ==
    IF quote # None THEN Val(quote) ELSE Val(bars.close)

\* lines 201-208, then the step of the state
TickData(n, c, t, l, h) ==
    \E bars \in BarWindows :
        LET h1 == [h EXCEPT !.fetched = @ \cup {"bars"}]
        IN  IF bars.len = 0 THEN Ret(n, c, t, l, [h1 EXCEPT !.step = "no_bars"])
            ELSE \E quote \in {None} \cup {Some(p) : p \in LatestPrices}, raises \in BOOLEAN :
                LET h2 == [h1 EXCEPT !.fetched = @ \cup {"latest_price"}]
                    latest_price == LatestPrice(quote, bars)
                    h3 == [h2 EXCEPT !.latest_price = Some(latest_price),
                                     !.price_source = IF quote # None THEN "quote"
                                                                      ELSE "close"]
                IN  IF quote = None /\ raises THEN Raise(n, c, t, l, h2)
                    ELSE IF quote # None /\ raises THEN FALSE
                    ELSE IF c.state = "ARMED" THEN TickArmed(n, c, t, l, h3, bars, latest_price)
                    ELSE IF c.state = "IN_TRADE" THEN TickInTrade(n, c, t, l, h3, bars, latest_price)
                    ELSE Ret(n, c, t, l, [h3 EXCEPT !.step = "fall_through"])

\* lines 164-198
TickOpen(n, c, t, l, h) ==
    \E prior_close \in FetchResults(c.prior_close, PriorCloses),
       today_open \in FetchResults(c.today_open, TodayOpens) :
        LET c1 == [c EXCEPT !.prior_close = prior_close, !.today_open = today_open]
            h1 == [h EXCEPT !.fetched =
                       (IF c.prior_close = None THEN {"prior_close"} ELSE {})
                       \cup (IF c.today_open = None THEN {"today_open"} ELSE {})]
        IN  IF c1.prior_close = None \/ c1.today_open = None
            THEN Ret(n, c1, t, l, [h1 EXCEPT !.step = "no_gap_data"])
            ELSE IF time_until_close_seconds(n) <= EOD_FLATTEN_BUFFER_SECONDS
            THEN TickEod(n, c1, t, l, [h1 EXCEPT !.eod = TRUE])
            ELSE IF ShouldArm(c1)
            THEN Ret(n, [c1 EXCEPT !.state = "ARMED"], t, l, [h1 EXCEPT !.step = "arm"])
            ELSE IF c1.state = "LOCKED"
            THEN Ret(n, c1, t, l, [h1 EXCEPT !.step = "locked"])
            ELSE TickData(n, c1, t, l, h1)

\* lines 137-161, then the rest of the cycle
Tick ==
    /\ pc = "tick"
    /\ \E n \in ClockPoints :
        /\ ClockLeq(now, n)
        /\ LET new_day == ctx.last_trading_day # Some(n.day)
               c == IF new_day THEN NewDay(ctx, n.day) ELSE ctx
               t == IF new_day THEN reset_daily ELSE trades_today
               l == IF new_day
                    THEN [led EXCEPT !.entries = 0, !.locked = FALSE, !.open = FALSE]
                    ELSE led
               h == [NoCycle EXCEPT !.ran = TRUE, !.pre = ctx, !.pre_trades = trades_today,
                                    !.pre_net = led.net, !.rollover = new_day,
                                    !.resets = IF new_day THEN 1 ELSE 0,
                                    !.pre_open = led.open,
                                    !.market_open = is_market_open(n)]
           IN  IF ~is_market_open(n)
               THEN Ret(n, MarketClosed(c), t, l, [h EXCEPT !.step = "market_closed"])
               ELSE TickOpen(n, c, t, l, h)

-----------------------------------------------------------------------------
(* The worker loop: bot.run_loop and the signal handler *)

\* line 124: the loop condition
LoopCheck ==
    /\ pc = "check"
    /\ pc' = IF shutdown_requested THEN "flatten" ELSE "tick"
    /\ UNCHANGED <<ctx, trades_today, cfg, shutdown_requested, now, led, cyc,
                   flatten_calls, szq, sgq, rmq>>

\* line 130
Sleep ==
    /\ pc = "sleep"
    /\ pc' = "check"
    /\ UNCHANGED <<ctx, trades_today, cfg, shutdown_requested, now, led, cyc,
                   flatten_calls, szq, sgq, rmq>>

\* lines 132-134
Flatten ==
    /\ pc = "flatten"
    /\ \E ok \in BOOLEAN :
        LET r == close_all_positions(cfg.dry_run, ok, led.net)
        IN  led' = [led EXCEPT !.net = r.net, !.api = @ \/ r.api]
    /\ flatten_calls' = flatten_calls + 1
    /\ pc' = "done"
    /\ UNCHANGED <<ctx, trades_today, cfg, shutdown_requested, now, cyc, szq, sgq, rmq>>

\* variant: the signal ends the loop where it stands
HandleSignal_Interrupts ==
    /\ pc # "done"
    /\ ~shutdown_requested
    /\ shutdown_requested' = TRUE
    /\ pc' = "flatten"
    /\ led' = [led EXCEPT !.sig_in_cycle = (pc = "tick")]
    /\ UNCHANGED <<ctx, trades_today, cfg, now, cyc, flatten_calls, szq, sgq, rmq>>

\* lines 66-70: SIGINT or SIGTERM, delivered at any point of the loop
HandleSignal ==
    /\ pc # "done"
    /\ ~shutdown_requested
    /\ shutdown_requested' = TRUE
    /\ led' = [led EXCEPT !.sig_in_cycle = (pc = "tick")]
    /\ UNCHANGED <<ctx, trades_today, cfg, pc, now, cyc, flatten_calls, szq, sgq, rmq>>

Next == Tick \/ LoopCheck \/ Sleep \/ Flatten \/ HandleSignal

Spec == Init /\ [][Next]_vars

\* the loop is followed on dry runs with the largest cap
FairInit == Init /\ cfg.dry_run /\ cfg.max_trades_per_day = MaxTradesCfg

\* every step of the loop that can be taken is taken: a cycle returns or
\* raises, the sleep ends, the flatten call returns
FairSpec ==
    /\ FairInit /\ [][Next]_vars
    /\ WF_vars(Tick) /\ WF_vars(LoopCheck) /\ WF_vars(Sleep) /\ WF_vars(Flatten)

-----------------------------------------------------------------------------
(* compute_shares on its own: the bot stays as constructed, and each step   *)
(* sizes one position for an equity, a price and two percentages.           *)

MaxEquity == 30
MaxPrice == 4
SizingEquities == -1..MaxEquity
SizingPrices == -1..MaxPrice
\* percentages in hundredths
SizingPcts == {[num |-> k, den |-> 100] : k \in {-1, 0, 1, 20, 50}}

SizingInit ==
    /\ Init
    /\ cfg.max_trades_per_day = 0 /\ ~cfg.dry_run

SizeOne ==
    /\ szq = None
    /\ \E equity \in SizingEquities, price \in SizingPrices,
          risk_pct \in SizingPcts, stop_pct \in SizingPcts :
          LET c == [cfg EXCEPT !.risk_pct = risk_pct, !.stop_pct = stop_pct]
          IN  szq' = Some([equity |-> equity, price |-> price,
                           risk_pct |-> risk_pct, stop_pct |-> stop_pct,
                           shares |-> compute_shares(c, equity, price)])
    /\ UNCHANGED <<ctx, trades_today, cfg, shutdown_requested, pc, now, led, cyc,
                   flatten_calls, sgq, rmq>>

SizingSpec == SizingInit /\ [][SizeOne]_vars

-----------------------------------------------------------------------------
(* evaluate_entry and evaluate_exit on their own: the bot stays as          *)
(* constructed, and each step evaluates one signal for a bar window, a      *)
(* price and the gap data or the open position.  Prices are around 1000, so *)
(* that the gap threshold (0.5%) and the stop (1%) fall on integers.         *)

SignalPrices == {985, 990, 995, 1000, 1010, 1015}
SignalPriorCloses == {-1000, 0, 1000}
SignalOpens == {990, 995, 996, 1000, 1004, 1005, 1010}
SignalMeans == {None, Some(980), Some(1000), Some(1020)}
SignalStds == {None, Some(0), Some(5)}
SignalVwaps == {None, Some(980), Some(1000), Some(1020)}
SignalBars ==
    [len : {0, band_lookback - 1, band_lookback}, mean : SignalMeans, std : SignalStds,
     close : {Some(1000)}, vwap : SignalVwaps]
SignalEntryPrices == {1000}
Directions == {"long", "short"}

SignalInit ==
    /\ Init
    /\ cfg.max_trades_per_day = 0 /\ ~cfg.dry_run

EntryOne ==
    /\ sgq = None
    /\ \E bars \in {b \in SignalBars : b.vwap = None}, latest_price \in SignalPrices,
          prior_close \in SignalPriorCloses, today_open \in SignalOpens :
          sgq' = Some([kind |-> "entry", bars |-> bars, latest_price |-> latest_price,
                       prior_close |-> prior_close, today_open |-> today_open,
                       result |-> evaluate_entry(bars, latest_price, prior_close,
                                                 today_open)])
    /\ UNCHANGED <<ctx, trades_today, cfg, shutdown_requested, pc, now, led, cyc,
                   flatten_calls, szq, rmq>>

ExitOne ==
    /\ sgq = None
    /\ \E bars \in SignalBars, latest_price \in SignalPrices,
          entry_price \in SignalEntryPrices, direction \in Directions,
          force_eod \in BOOLEAN, vwap_exit \in BOOLEAN :
          LET c == [cfg EXCEPT !.use_vwap_exit = vwap_exit]
          IN  sgq' = Some([kind |-> "exit", bars |-> bars, latest_price |-> latest_price,
                           entry_price |-> entry_price, direction |-> direction,
                           force_eod |-> force_eod, use_vwap_exit |-> vwap_exit,
                           stop_pct |-> c.stop_pct,
                           result |-> evaluate_exit(c, bars, latest_price, entry_price,
                                                    direction, force_eod)])
    /\ UNCHANGED <<ctx, trades_today, cfg, shutdown_requested, pc, now, led, cyc,
                   flatten_calls, szq, rmq>>

SignalNext == EntryOne \/ ExitOne

SignalSpec == SignalInit /\ [][SignalNext]_vars

-----------------------------------------------------------------------------
(* The RiskManager on its own: the bot stays as constructed, and each step  *)
(* is one call of can_trade, record_trade or reset_daily, in any order.     *)
(* rmq records the call, the call before it, the counter before the call,   *)
(* the result of can_trade and the number of record_trade calls since the   *)
(* construction or the last reset.                                          *)

MaxRecorded == 4

RmCalls == IF rmq = None THEN 0 ELSE Val(rmq).records
RmLast == IF rmq = None THEN "init" ELSE Val(rmq).op

RmCanTrade ==
    /\ rmq' = Some([op |-> "can_trade", prev |-> RmLast, before |-> trades_today,
                    result |-> can_trade(cfg, trades_today), records |-> RmCalls])
    /\ UNCHANGED <<ctx, trades_today, cfg, shutdown_requested, pc, now, led, cyc,
                   flatten_calls, szq, sgq>>

RmRecordTrade ==
    /\ trades_today < MaxRecorded
    /\ trades_today' = record_trade(trades_today)
    /\ rmq' = Some([op |-> "record_trade", prev |-> RmLast, before |-> trades_today,
                    result |-> FALSE, records |-> RmCalls + 1])
    /\ UNCHANGED <<ctx, cfg, shutdown_requested, pc, now, led, cyc,
                   flatten_calls, szq, sgq>>

RmResetDaily ==
    /\ trades_today' = reset_daily
    /\ rmq' = Some([op |-> "reset_daily", prev |-> RmLast, before |-> trades_today,
                    result |-> FALSE, records |-> 0])
    /\ UNCHANGED <<ctx, cfg, shutdown_requested, pc, now, led, cyc,
                   flatten_calls, szq, sgq>>

RiskNext == RmCanTrade \/ RmRecordTrade \/ RmResetDaily

RiskSpec == Init /\ [][RiskNext]_vars

-----------------------------------------------------------------------------
(* Properties of the state machine.  ctx changes only in Tick, so a state   *)
(* predicate over ctx and cyc speaks of the end of the last cycle.          *)

HasPosition(c) == c.entry_price # None \/ c.direction # None \/ c.trade_qty # 0

C2_PositionFieldsMatchState ==
    cyc.ran =>
        /\ (ctx.entry_price # None) <=> (ctx.state = "IN_TRADE")
        /\ (ctx.direction # None) <=> (ctx.state = "IN_TRADE")
        /\ ctx.state # "IN_TRADE" => ctx.trade_qty = 0

\* C3: between cycles entry_price, direction and trade_qty > 0 are all set or
\* all unset, whatever the cycles before did (early return, failed order).
C3_PositionFieldsAllOrNone ==
    \/ ctx.entry_price # None /\ ctx.direction # None /\ ctx.trade_qty > 0
    \/ ctx.entry_price = None /\ ctx.direction = None /\ ctx.trade_qty = 0

\* a cycle whose exit order failed has left all three fields set
C3_Witness ==
    /\ cyc.step = "exit_failed"
    /\ ctx.entry_price # None /\ ctx.direction # None /\ ctx.trade_qty > 0

\* C4: 0 <= trades_today <= max_trades_per_day; an entry order is submitted
\* only in a cycle whose can_trade() call returned true, i.e. with the counter
\* below the cap at that moment; a cycle whose can_trade() call in the ARMED
\* step returned false ends in LOCKED, evaluates no entry and submits nothing.
C4_TradeCap ==
    /\ 0 <= trades_today /\ trades_today <= cfg.max_trades_per_day
    /\ cyc.entry_order # None =>
          /\ cyc.can_trade = "true"
          /\ cyc.pre_trades < cfg.max_trades_per_day
    /\ (cyc.pre.state = "ARMED" /\ cyc.can_trade = "false") =>
          /\ ctx.state = "LOCKED"
          /\ cyc.entry_signal = "unevaluated"
          /\ cyc.entry_order = None /\ cyc.exit_order = None

\* the entry that takes the counter to a cap above zero
C4_Witness ==
    /\ cyc.step = "entry_filled"
    /\ trades_today = cfg.max_trades_per_day

\* C5: trades_today equals the number of entry orders filled since the last
\* day rollover; a cycle whose entry submission fails leaves trades_today
\* unchanged, the state ARMED and the position fields empty.
C5_TradesCountFilledEntries ==
    /\ trades_today = led.entries
    /\ (cyc.entry_order # None /\ ~Val(cyc.entry_order).filled) =>
          /\ trades_today = cyc.pre_trades
          /\ ctx.state = "ARMED"
          /\ ~HasPosition(ctx)
    /\ (cyc.entry_order # None /\ Val(cyc.entry_order).filled) =>
          trades_today = cyc.pre_trades + 1

\* a failed entry submission after an entry that filled earlier in the day
C5_Witness ==
    /\ cyc.step = "entry_failed"
    /\ trades_today = 1

\* C6: an entry order is submitted only in a cycle that starts its ARMED step
\* with empty position fields and with no position of the bot still open at
\* the broker.
C6_OnePositionAtATime ==
    cyc.entry_order # None => (~HasPosition(cyc.pre) /\ cyc.pre_net = 0)


\* C7: a shutdown request leaves the running cycle alone (the request changes
\* neither the loop's position nor the context, and the cycle in progress
\* ends as a completed cycle); the loop leaves only from its check between
\* cycles, with the request pending; close_all_positions is then called once,
\* no cycle runs after it; and a request is always followed by that call.
C7_CooperativeShutdown ==
    /\ [][shutdown_requested' # shutdown_requested =>
            (pc' = pc /\ ctx' = ctx /\ cyc' = cyc /\ trades_today' = trades_today)]_vars
    /\ [][(pc = "tick" /\ pc' # "tick") => (pc' = "sleep" /\ cyc'.ran)]_vars
    /\ [][(pc' = "flatten" /\ pc # "flatten") => (pc = "check" /\ shutdown_requested)]_vars
    /\ [][flatten_calls' # flatten_calls =>
            (pc = "flatten" /\ pc' = "done" /\ flatten_calls' = 1)]_vars
    /\ [][flatten_calls >= 1 => (pc' = "done" /\ ctx' = ctx /\ cyc' = cyc)]_vars
    /\ [](pc = "done" <=> flatten_calls = 1)
    /\ shutdown_requested ~> (pc = "done" /\ flatten_calls = 1)

\* the request arrived while a cycle was running; the process has flattened once
C7_Witness ==
    /\ led.sig_in_cycle /\ cyc.ran
    /\ pc = "done" /\ flatten_calls = 1

\* C8: a cycle that raises ends like any other cycle, in the sleep of the
\* loop; the loop is left only once a shutdown is requested; after a failed
\* cycle the next cycle runs unless a shutdown is requested, and cycles keep
\* coming for as long as none is.
C8_ErrorsNeverStopTheLoop ==
    /\ [][(pc = "tick" /\ cyc'.raised /\ cyc' # cyc) => pc' = "sleep"]_vars
    /\ [](pc \in {"flatten", "done"} => shutdown_requested)
    /\ (cyc.raised /\ pc = "sleep") ~> (pc = "tick" \/ shutdown_requested)
    /\ (~shutdown_requested) ~> (pc = "tick" \/ shutdown_requested)

\* a cycle has failed in its IN_TRADE step and the loop is about to run the next one
C8_Witness ==
    /\ cyc.raised /\ cyc.pre = ctx /\ cyc.pre.state = "IN_TRADE"
    /\ pc = "tick" /\ ~shutdown_requested

\* C9: in dry-run mode the broker client is never asked to submit an order or
\* to close all positions, by a cycle or by the shutdown; every order of a
\* cycle comes back as a fill without a price; after an entry the state is
\* IN_TRADE at the latest price, after an exit the position is cleared.
C9_DryRunSendsNothing ==
    cfg.dry_run =>
        /\ ~led.api /\ led.net = 0 /\ ~cyc.api
        /\ \A o \in {cyc.entry_order, cyc.exit_order} \ {None} :
              Val(o).filled /\ Val(o).price = None
        /\ cyc.entry_order # None =>
              /\ ctx.state = "IN_TRADE"
              /\ ctx.entry_price = cyc.latest_price
              /\ ctx.trade_qty = Val(cyc.entry_order).qty
        /\ cyc.exit_order # None =>
              /\ ~HasPosition(ctx)
              /\ ctx.state \in {"ARMED", "LOCKED"}

\* a dry run that entered, exited and was shut down
C9_Witness ==
    /\ cfg.dry_run /\ pc = "done"
    /\ cyc.step = "exit_filled" /\ trades_today >= 1

\* floor(equity * 0.10 / price)
EquityCap(q) == (q.equity * 10) \div (q.price * 100)

\* floor(equity * risk_pct / (price * stop_pct)), for price * stop_pct > 0
RiskShares(q) ==
    (q.equity * q.risk_pct.num * q.stop_pct.den)
        \div (q.price * q.stop_pct.num * q.risk_pct.den)

-----------------------------------------------------------------------------
(* Properties of the signal evaluator, over the evaluation recorded in sgq  *)

\* the window yields bands: enough bars and a finite mean and deviation
BandsPresent(q) ==
    q.bars.len >= band_lookback /\ q.bars.mean # None /\ q.bars.std # None

\* the price has moved against the position by stop_pct of the entry price
StopCond(q) ==
    IF q.direction = "long"
    THEN q.latest_price * q.stop_pct.den <= q.entry_price * (q.stop_pct.den - q.stop_pct.num)
    ELSE q.latest_price * q.stop_pct.den >= q.entry_price * (q.stop_pct.den + q.stop_pct.num)

\* the price is back at the rolling mean, resp. at the VWAP
MeanCond(q) ==
    /\ BandsPresent(q)
    /\ IF q.direction = "long" THEN q.latest_price >= Val(q.bars.mean)
                                ELSE q.latest_price <= Val(q.bars.mean)

VwapCond(q) ==
    /\ q.bars.vwap # None
    /\ IF q.direction = "long" THEN q.latest_price >= Val(q.bars.vwap)
                                ELSE q.latest_price <= Val(q.bars.vwap)

GapLarge(q) ==
    /\ q.prior_close > 0
    /\ Abs(q.today_open - q.prior_close) * gap_threshold.den
           >= gap_threshold.num * q.prior_close

LongCond(q) ==
    /\ GapLarge(q) /\ BandsPresent(q)
    /\ q.today_open < q.prior_close
    /\ q.latest_price <= Val(q.bars.mean) - band_mult * Val(q.bars.std)

ShortCond(q) ==
    /\ GapLarge(q) /\ BandsPresent(q)
    /\ q.today_open > q.prior_close
    /\ q.latest_price >= Val(q.bars.mean) + band_mult * Val(q.bars.std)

-----------------------------------------------------------------------------
(* Properties of the risk manager, over the call recorded in rmq *)

\* C13: can_trade returns true iff trades_today < max_trades_per_day and
\* leaves trades_today alone; counted from the construction or a reset it is
\* true before, and false from, max_trades_per_day calls of record_trade; a
\* reset_daily that follows a reset_daily leaves the counter as the first
\* left it, at 0.
C13_RiskManagerAlgebra ==
    rmq # None =>
        LET q == Val(rmq)
        IN  /\ q.op = "can_trade" =>
                  /\ q.result <=> q.before < cfg.max_trades_per_day
                  /\ trades_today = q.before
                  /\ q.result <=> q.records < cfg.max_trades_per_day
            /\ q.op = "reset_daily" => trades_today = 0
            /\ (q.op = "reset_daily" /\ q.prev = "reset_daily") =>
                  trades_today = q.before

\* can_trade is false right after the call of record_trade that reaches a
\* cap above zero
C13_Witness ==
    /\ rmq # None
    /\ Val(rmq).op = "can_trade" /\ Val(rmq).prev = "record_trade"
    /\ ~Val(rmq).result
    /\ Val(rmq).records = cfg.max_trades_per_day
    /\ cfg.max_trades_per_day = MaxTradesCfg

-----------------------------------------------------------------------------
(* Properties of one cycle, over the record of the last cycle in cyc.  The  *)
(* clock reading of that cycle is now.                                      *)

\* the context as the steps after the day rollover find it
CycleStart == IF cyc.rollover THEN NewDay(cyc.pre, now.day) ELSE cyc.pre

NoOrder(h) == h.entry_order = None /\ h.exit_order = None /\ ~h.close_all /\ ~h.api

NoSignal(h) == h.entry_signal = "unevaluated" /\ h.exit_signal = "unevaluated"

StepChanges ==
    {<<"IDLE", "ARMED">>, <<"ARMED", "IN_TRADE">>, <<"ARMED", "LOCKED">>,
     <<"IN_TRADE", "ARMED">>, <<"IN_TRADE", "LOCKED">>}

InFlattenWindow ==
    /\ cyc.ran /\ cyc.market_open
    /\ ctx.prior_close # None /\ ctx.today_open # None
    /\ (MARKET_CLOSE - now.tod) * 60 <= EOD_FLATTEN_BUFFER_SECONDS

\* C15: a market-open cycle with the gap data and at most 300 s to the close
\* ends in LOCKED from any state and evaluates no entry or exit signal; when
\* the context holds a position (IN_TRADE with a direction) it submits one
\* exit order, for that direction and the full quantity, and clears the
\* position fields, whether the order fills or not; otherwise it submits
\* nothing and leaves the position fields alone.
C15_EndOfDayFlatten ==
    /\ cyc.ran => (cyc.eod <=> InFlattenWindow)
    /\ InFlattenWindow =>
          /\ ctx.state = "LOCKED"
          /\ NoSignal(cyc)
          /\ cyc.entry_order = None /\ ~cyc.close_all
          /\ IF CycleStart.state = "IN_TRADE" /\ CycleStart.direction # None
             THEN /\ cyc.exit_order # None
                  /\ Val(cyc.exit_order).direction = Val(CycleStart.direction)
                  /\ Val(cyc.exit_order).qty = CycleStart.trade_qty
                  /\ ~HasPosition(ctx)
             ELSE /\ cyc.exit_order = None
                  /\ ctx.entry_price = CycleStart.entry_price
                  /\ ctx.direction = CycleStart.direction
                  /\ ctx.trade_qty = CycleStart.trade_qty

\* the flatten of an open position whose exit order fails: the fields are
\* cleared and the context is locked while the broker still holds the shares
C15_Witness ==
    /\ InFlattenWindow
    /\ cyc.pre.state = "IN_TRADE" /\ cyc.pre.trade_qty > 0
    /\ cyc.exit_order # None /\ ~Val(cyc.exit_order).filled
    /\ ctx.state = "LOCKED" /\ led.net # 0

\* the last cycle ran the IN_TRADE step with both position fields present
\* and evaluate_exit returned
InTradeStep ==
    /\ cyc.ran /\ cyc.exit_signal # "unevaluated"
    /\ cyc.pre.state = "IN_TRADE"
    /\ cyc.pre.entry_price # None /\ cyc.pre.direction # None

\* C16: in the IN_TRADE step with both position fields present, no exit
\* signal leaves the context as it was and submits nothing; an exit signal
\* whose order fails leaves the state IN_TRADE and the three position fields
\* as they were; an exit signal whose order fills clears the three fields and
\* sets the state to ARMED if can_trade() holds, else LOCKED; trades_today is
\* the same after the cycle in all three cases.
C16_InTradeStep ==
    /\ cyc.exit_signal # "unevaluated" => InTradeStep
    /\ InTradeStep =>
          /\ trades_today = cyc.pre_trades
          /\ cyc.entry_order = None /\ ~cyc.close_all
          /\ cyc.exit_signal = "none" => (ctx = cyc.pre /\ NoOrder(cyc))
          /\ cyc.exit_signal # "none" =>
                /\ cyc.exit_order # None
                /\ Val(cyc.exit_order).direction = Val(cyc.pre.direction)
                /\ Val(cyc.exit_order).qty = cyc.pre.trade_qty
                /\ ~Val(cyc.exit_order).filled =>
                      /\ ctx.state = "IN_TRADE"
                      /\ ctx.entry_price = cyc.pre.entry_price
                      /\ ctx.direction = cyc.pre.direction
                      /\ ctx.trade_qty = cyc.pre.trade_qty
                /\ Val(cyc.exit_order).filled =>
                      /\ ~HasPosition(ctx)
                      /\ ctx.state = IF cyc.pre_trades < cfg.max_trades_per_day
                                     THEN "ARMED" ELSE "LOCKED"

\* the exit of the last trade the cap allows fills: the cycle ends in LOCKED
C16_Witness ==
    /\ InTradeStep
    /\ cyc.exit_order # None /\ Val(cyc.exit_order).filled
    /\ trades_today = cfg.max_trades_per_day
    /\ ctx.state = "LOCKED"

\* the date of the last cycle differs from the last_trading_day it started with
DateChanged == cyc.ran /\ cyc.pre.last_trading_day # Some(now.day)

\* C17: a cycle whose date differs from last_trading_day, whatever its state,
\* first sets last_trading_day to the date, clears prior_close, today_open,
\* entry_price, direction and trade_qty, resets trades_today to 0 and sets the
\* state to IDLE, and then runs its remaining steps from IDLE: with the market
\* closed it ends exactly there; with the market open it fetches the gap
\* data anew and ends in IDLE (no gap data), LOCKED (flatten window) or ARMED,
\* without an order or a signal.
C17_DayRollover ==
    /\ cyc.ran => (cyc.rollover <=> DateChanged)
    /\ DateChanged =>
          /\ ctx.last_trading_day = Some(now.day)
          /\ trades_today = 0
          /\ ~HasPosition(ctx)
          /\ ctx.prior_close # None => "prior_close" \in cyc.fetched
          /\ ctx.today_open # None => "today_open" \in cyc.fetched
          /\ NoOrder(cyc) /\ NoSignal(cyc)
          /\ ~cyc.market_open =>
                ctx = [cyc.pre EXCEPT !.last_trading_day = Some(now.day),
                                      !.prior_close = None, !.today_open = None,
                                      !.entry_price = None, !.direction = None,
                                      !.trade_qty = 0, !.state = "IDLE"]
          /\ cyc.market_open =>
                \/ cyc.step = "no_gap_data" /\ ctx.state = "IDLE"
                \/ cyc.step = "eod_lock" /\ ctx.state = "LOCKED"
                \/ cyc.step = "arm" /\ ctx.state = "ARMED"

\* a rollover cycle that starts IN_TRADE with a position, trades counted and
\* gap data cached, and arms
C17_Witness ==
    /\ DateChanged
    /\ cyc.pre.state = "IN_TRADE" /\ HasPosition(cyc.pre)
    /\ cyc.pre_trades > 0 /\ cyc.pre.prior_close # None
    /\ ctx.state = "ARMED"

\* C18: trades_today goes down only in a day-rollover cycle, which sets it
\* to 0; a cycle calls reset_daily once if its date differs from the
\* last_trading_day it starts with (the first cycle of the process included)
\* and not at all if the date is the same.
C18_ResetOncePerDay ==
    /\ [][trades_today' < trades_today =>
            (pc = "tick" /\ cyc'.rollover /\ trades_today' = 0)]_vars
    /\ [](cyc.ran =>
            /\ cyc.resets = IF DateChanged THEN 1 ELSE 0
            /\ cyc.pre.last_trading_day = None => cyc.resets = 1
            /\ DateChanged => trades_today = 0
            /\ ~DateChanged => trades_today >= cyc.pre_trades)

\* a rollover cycle that takes the counter from the cap back to 0
C18_Witness ==
    /\ DateChanged /\ cyc.resets = 1
    /\ cyc.pre_trades = MaxTradesCfg
    /\ trades_today = 0

\* the clock reading of the last cycle is on a weekend or outside 09:30-16:00
ClosedNow ==
    \/ (now.day + 3) % 7 >= 5
    \/ now.tod < MARKET_OPEN
    \/ now.tod >= MARKET_CLOSE

\* C19: a cycle that finds the market closed ends in IDLE, fetches nothing
\* and submits no order; apart from the state, and after the rollover of the
\* same cycle if there is one, prior_close, today_open, entry_price,
\* direction, trade_qty and trades_today are as they were.
C19_MarketClosedCycle ==
    cyc.ran =>
        /\ cyc.market_open <=> ~ClosedNow
        /\ ClosedNow =>
              /\ ctx.state = "IDLE"
              /\ cyc.fetched = {}
              /\ NoOrder(cyc) /\ NoSignal(cyc)
              /\ ctx = [CycleStart EXCEPT !.state = "IDLE"]
              /\ trades_today = IF DateChanged THEN 0 ELSE cyc.pre_trades

\* a cycle after the close that starts IN_TRADE on the same day: the state
\* becomes IDLE and the position fields stay
C19_Witness ==
    /\ cyc.ran /\ ClosedNow /\ ~DateChanged
    /\ cyc.pre.state = "IN_TRADE"
    /\ ctx.state = "IDLE" /\ HasPosition(ctx)
    /\ trades_today > 0

\* the last cycle found the market open and, after its fetch, still lacks
\* one of the two gap values
GapDataMissing ==
    /\ cyc.ran /\ cyc.market_open
    /\ (ctx.prior_close = None \/ ctx.today_open = None)

\* C20: a market-open cycle fetches prior_close and today_open each iff it is
\* unset (after the rollover of the same cycle, if any) and keeps a value it
\* already has; if one of them is still missing after the fetch the cycle
\* returns with the state, the position fields and trades_today as they
\* were, fetches nothing else, evaluates nothing and submits no order.
C20_GapDataFetch ==
    /\ (cyc.ran /\ cyc.market_open) =>
          /\ "prior_close" \in cyc.fetched <=> CycleStart.prior_close = None
          /\ "today_open" \in cyc.fetched <=> CycleStart.today_open = None
          /\ CycleStart.prior_close # None => ctx.prior_close = CycleStart.prior_close
          /\ CycleStart.today_open # None => ctx.today_open = CycleStart.today_open
    /\ GapDataMissing =>
          /\ ctx.state = CycleStart.state
          /\ ctx.entry_price = CycleStart.entry_price
          /\ ctx.direction = CycleStart.direction
          /\ ctx.trade_qty = CycleStart.trade_qty
          /\ trades_today = IF DateChanged THEN 0 ELSE cyc.pre_trades
          /\ cyc.fetched \subseteq {"prior_close", "today_open"}
          /\ NoOrder(cyc) /\ NoSignal(cyc)

\* prior_close was obtained in an earlier cycle; this cycle fetches only
\* today_open, which is still unavailable
C20_Witness ==
    /\ GapDataMissing /\ ~DateChanged
    /\ cyc.pre.prior_close # None /\ ctx.prior_close = cyc.pre.prior_close
    /\ cyc.fetched = {"today_open"}
    /\ ctx.today_open = None

\* the clock reading of the last cycle is within the entry window after the
\* open, resp. more than the buffer before the close
EntryWindowNow ==
    MARKET_OPEN <= now.tod /\ now.tod < MARKET_OPEN + entry_window_minutes

BeforeFlattenWindow ==
    (MARKET_CLOSE - now.tod) * 60 > EOD_FLATTEN_BUFFER_SECONDS

\* the last cycle started ARMED and reached the ARMED step: same day, market
\* open, gap data there, outside the flatten window, bars and a price at hand
ArmedStep ==
    /\ cyc.ran /\ ~DateChanged /\ cyc.pre.state = "ARMED"
    /\ cyc.latest_price # None

\* C21: an entry order is submitted only in a cycle that finds the market
\* open, more than the end-of-day buffer before the close and within the
\* entry window; a cycle in the ARMED step outside the entry window, with
\* can_trade() true, leaves the whole context and trades_today as they were,
\* evaluates no signal and submits no order.
C21_EntryWindow ==
    /\ cyc.entry_order # None =>
          (~ClosedNow /\ BeforeFlattenWindow /\ EntryWindowNow)
    /\ (ArmedStep /\ cyc.pre_trades < cfg.max_trades_per_day /\ ~EntryWindowNow) =>
          /\ ctx = cyc.pre
          /\ ctx.state = "ARMED"
          /\ trades_today = cyc.pre_trades
          /\ NoOrder(cyc) /\ NoSignal(cyc)

\* an ARMED cycle at the first minute after the entry window, after a trade
\* of the day, with the cap not reached
C21_Witness ==
    /\ ArmedStep /\ ~EntryWindowNow
    /\ now.tod = MARKET_OPEN + entry_window_minutes
    /\ trades_today = 1 /\ cfg.max_trades_per_day > 1
    /\ ctx.state = "ARMED"

\* what the last cycle sized with: the equity and the price it read, and the
\* percentages of the configuration
CycleSizing ==
    [equity |-> Val(cyc.equity), price |-> Val(cyc.latest_price),
     risk_pct |-> cfg.risk_pct, stop_pct |-> cfg.stop_pct]

\* the size the sizing rule gives for q
ExpectedShares(q) ==
    IF q.equity <= 0 \/ q.price <= 0 \/ q.price * q.stop_pct.num <= 0 THEN 0
    ELSE Max(Min(RiskShares(q), EquityCap(q)), 0)

\* C22: every entry order has the quantity compute_shares gives for the
\* account equity and the latest price of its cycle, and that is at least 1;
\* a cycle whose computed size is 0 submits no order, stays ARMED, leaves the
\* position fields empty and trades_today as it was.
C22_EntryQuantity ==
    /\ cyc.qty # None =>
          /\ cyc.equity # None /\ cyc.latest_price # None
          /\ Val(cyc.qty) = ExpectedShares(CycleSizing)
    /\ cyc.entry_order # None =>
          /\ cyc.qty # None
          /\ Val(cyc.entry_order).qty = Val(cyc.qty)
          /\ Val(cyc.entry_order).qty >= 1
    /\ (cyc.qty # None /\ Val(cyc.qty) <= 0) =>
          /\ NoOrder(cyc)
          /\ ctx.state = "ARMED" /\ ~HasPosition(ctx)
          /\ ctx = cyc.pre
          /\ trades_today = cyc.pre_trades

\* an entry order sized by the equity cap, which is below the risk-based size
C22_Witness ==
    /\ cyc.entry_order # None /\ cyc.equity # None
    /\ Val(cyc.entry_order).qty = EquityCap(CycleSizing)
    /\ EquityCap(CycleSizing) < RiskShares(CycleSizing)
    /\ Val(cyc.entry_order).qty >= 1

\* the entry order of the last cycle came back as a fill
EntryFilled == cyc.entry_order # None /\ Val(cyc.entry_order).filled

\* C23: after a cycle whose entry order fills, entry_price is the price of
\* the fill if it carries one and else the latest price of the cycle (always,
\* in dry-run mode), direction is the direction of the entry signal, trade_qty
\* is the quantity submitted, and the state is IN_TRADE.
C23_FilledEntryRecord ==
    EntryFilled =>
        /\ ctx.entry_price = IF Val(cyc.entry_order).price # None
                             THEN Val(cyc.entry_order).price
                             ELSE cyc.latest_price
        /\ cfg.dry_run => (Val(cyc.entry_order).price = None
                           /\ ctx.entry_price = cyc.latest_price)
        /\ cyc.entry_signal \in {"long", "short"}
        /\ ctx.direction = Some(cyc.entry_signal)
        /\ Val(cyc.entry_order).direction = cyc.entry_signal
        /\ ctx.trade_qty = Val(cyc.entry_order).qty
        /\ ctx.state = "IN_TRADE"

\* an entry whose fill carries a price other than the latest price
C23_Witness ==
    /\ EntryFilled
    /\ Val(cyc.entry_order).price # None
    /\ Val(cyc.entry_order).price # cyc.latest_price
    /\ ctx.entry_price = Val(cyc.entry_order).price
    /\ ctx.state = "IN_TRADE"

\* the closes of the newest bar of the windows that have bars
NewestCloses == {b.close : b \in {w \in BarWindows : w.len > 0}}

\* C24: a cycle that gets no bars started ARMED or IN_TRADE and is skipped:
\* the context (state, position fields, gap cache) and trades_today are as
\* they were, nothing but the bars was fetched, no signal is evaluated and no
\* order submitted; the next cycle that finds the market open on the same day
\* before the flatten window starts from the same state and fetches the bars
\* again; and a cycle with bars but without a quote uses the close of the
\* newest bar as latest price.
C24_NoBarsSkip ==
    /\ [](cyc.step = "no_bars" =>
            /\ cyc.pre.state \in {"ARMED", "IN_TRADE"} /\ ~DateChanged
            /\ ctx = cyc.pre
            /\ trades_today = cyc.pre_trades
            /\ cyc.fetched = {"bars"} /\ cyc.latest_price = None
            /\ NoSignal(cyc) /\ NoOrder(cyc))
    /\ [](cyc.price_source = "close" => cyc.latest_price \in NewestCloses)
    /\ [](cyc.price_source = "quote" =>
            cyc.latest_price \in {Some(p) : p \in LatestPrices})
    /\ [][(/\ pc = "tick" /\ pc' = "sleep"
           /\ cyc.step = "no_bars"
           /\ cyc'.market_open /\ ~cyc'.eod /\ ~cyc'.rollover) =>
              (cyc'.pre.state = cyc.pre.state /\ "bars" \in cyc'.fetched)]_vars

\* a cycle without bars while a position is open
C24_Witness ==
    /\ cyc.step = "no_bars"
    /\ cyc.pre.state = "IN_TRADE" /\ HasPosition(ctx)
    /\ ctx = cyc.pre

\* C25: once prior_close, resp. today_open, is set in the context, a cycle
\* without a day rollover neither changes it nor fetches it again, whatever
\* else the cycle does; only a day-rollover cycle clears it.
C25_GapCache ==
    /\ [](cyc.ran /\ ~DateChanged =>
            /\ cyc.pre.prior_close # None =>
                  (ctx.prior_close = cyc.pre.prior_close
                   /\ "prior_close" \notin cyc.fetched)
            /\ cyc.pre.today_open # None =>
                  (ctx.today_open = cyc.pre.today_open
                   /\ "today_open" \notin cyc.fetched))
    /\ [][(ctx.prior_close # None /\ ctx'.prior_close # ctx.prior_close) =>
              (pc = "tick" /\ cyc'.rollover)]_vars
    /\ [][(ctx.today_open # None /\ ctx'.today_open # ctx.today_open) =>
              (pc = "tick" /\ cyc'.rollover)]_vars

\* a cycle after the close, on the day the gap data were cached and a trade
\* was made, keeps both values
C25_Witness ==
    /\ cyc.ran /\ ~DateChanged /\ ClosedNow
    /\ cyc.pre.prior_close # None /\ cyc.pre.today_open # None
    /\ ctx.prior_close = cyc.pre.prior_close /\ ctx.today_open = cyc.pre.today_open
    /\ trades_today > 0

\* C26: a cycle that ends with LOCKED entered since the last day rollover (the
\* cycle that enters it, every later cycle of that day, market open or closed)
\* has submitted no entry order and, unless it is itself the rollover cycle,
\* leaves trades_today as it was; a cycle that starts LOCKED on the same day,
\* inside market hours and before the flatten window, fetches nothing,
\* evaluates nothing, submits nothing and leaves context and counter unchanged.
C26_LockedNoEntries ==
    /\ (cyc.ran /\ led.locked) =>
          /\ cyc.entry_order = None
          /\ ~cyc.rollover => trades_today = cyc.pre_trades
    /\ (cyc.ran /\ cyc.pre.state = "LOCKED" /\ ~DateChanged
            /\ ~ClosedNow /\ BeforeFlattenWindow) =>
          /\ ctx = cyc.pre
          /\ trades_today = cyc.pre_trades
          /\ cyc.fetched = {}
          /\ NoOrder(cyc) /\ NoSignal(cyc)

\* a LOCKED cycle inside the entry window, the daily cap having been reached
C26_Witness ==
    /\ cyc.ran /\ cyc.pre.state = "LOCKED" /\ ~DateChanged
    /\ EntryWindowNow /\ ~ClosedNow
    /\ led.locked /\ ctx.state = "LOCKED"
    /\ trades_today = cfg.max_trades_per_day /\ trades_today > 0

\* C27: a cycle that starts with position fields set and ends with them empty
\* has submitted an exit order for the held direction and quantity, and that
\* submission returned a fill.
C27_ClearedOnlyWhenClosed ==
    (cyc.ran /\ HasPosition(cyc.pre) /\ ~HasPosition(ctx)) =>
        /\ cyc.exit_order # None
        /\ Val(cyc.exit_order).filled
        /\ Some(Val(cyc.exit_order).direction) = cyc.pre.direction
        /\ Val(cyc.exit_order).qty = cyc.pre.trade_qty

\* C28: every exit order of a cycle, signal-driven or end-of-day, carries the
\* direction and the quantity of the most recent filled entry, and a quantity
\* of at least 1; a cycle submits an exit order only if an entry has filled
\* since the position fields were last cleared, never in a rollover cycle.
C28_ExitMatchesEntry ==
    (cyc.ran /\ cyc.exit_order # None) =>
        /\ cyc.pre_open /\ ~cyc.rollover
        /\ led.last_entry # None
        /\ Val(cyc.exit_order).direction = Val(led.last_entry).direction
        /\ Val(cyc.exit_order).qty = Val(led.last_entry).qty
        /\ Val(cyc.exit_order).qty >= 1

\* the end-of-day flatten of a short position of more than one share
C28_Witness ==
    /\ cyc.ran /\ cyc.eod /\ cyc.exit_order # None
    /\ Val(cyc.exit_order).direction = "short"
    /\ Val(cyc.exit_order).qty > 1
    /\ led.last_entry = Some([direction |-> "short", qty |-> Val(cyc.exit_order).qty])

\* C29: whenever the state is ARMED, IN_TRADE or LOCKED, prior_close and
\* today_open are both present in the context; a cycle that evaluated an entry
\* or exit signal or submitted an order ran, and ends, with both present.
C29_GapDataPresent ==
    /\ ctx.state \in {"ARMED", "IN_TRADE", "LOCKED"} =>
          (ctx.prior_close # None /\ ctx.today_open # None)
    /\ (cyc.ran /\ (~NoSignal(cyc) \/ cyc.entry_order # None
                    \/ cyc.exit_order # None \/ cyc.close_all)) =>
          /\ ctx.prior_close # None /\ ctx.today_open # None
          /\ cyc.market_open
          /\ cyc.pre.prior_close # None /\ ~cyc.rollover =>
                ctx.prior_close = cyc.pre.prior_close
          /\ cyc.pre.today_open # None /\ ~cyc.rollover =>
                ctx.today_open = cyc.pre.today_open

\* an entry on the day after the first rollover, on gap data cached by an
\* earlier cycle of that day
C29_Witness ==
    /\ cyc.ran /\ now.day = 1
    /\ cyc.entry_order # None /\ ctx.state = "IN_TRADE"
    /\ ctx.prior_close # None /\ ctx.today_open # None
    /\ "prior_close" \notin cyc.fetched /\ "today_open" \notin cyc.fetched

\* C30: a cycle that raised did so in its ARMED or IN_TRADE step; it has
\* submitted no order, called close_all_positions not at all, and leaves the
\* context (state, entry_price, direction, trade_qty, gap data, day) and
\* trades_today exactly as they were when the cycle began.
C30_RaiseLeavesContext ==
    cyc.raised =>
        /\ cyc.pre.state \in {"ARMED", "IN_TRADE"}
        /\ ~cyc.rollover /\ cyc.market_open
        /\ cyc.entry_order = None /\ cyc.exit_order = None /\ ~cyc.close_all
        /\ ctx = cyc.pre
        /\ trades_today = cyc.pre_trades

\* the equity fetch of an ARMED cycle raised after an entry signal, on a day
\* that already had a trade
C30_Witness ==
    /\ cyc.raised /\ cyc.pre.state = "ARMED" /\ ctx.state = "ARMED"
    /\ "equity" \in cyc.fetched /\ cyc.entry_signal \in {"long", "short"}
    /\ trades_today = 1 /\ cyc.pre_trades = 1

\* the last cycle ran on day d inside market hours with at most 300 s to the
\* close
FlattenCycle(d) ==
    /\ cyc.ran /\ now.day = d
    /\ ~ClosedNow /\ ~BeforeFlattenWindow

\* no position in the context, on day d before the close
FlatBeforeClose(d) ==
    /\ ctx.state # "IN_TRADE" /\ ~HasPosition(ctx)
    /\ now.day = d /\ now.tod < MARKET_CLOSE

\* C31: when the state is IN_TRADE on some day and a later cycle of that day
\* falls in the flatten window, then at some moment of that day before the
\* close the state is not IN_TRADE and the position fields are empty, whether
\* the exit submissions before and in that cycle fill or fail; and every
\* cycle in the flatten window ends with the state not IN_TRADE and the
\* position fields empty.
C31_FlatByClose ==
    /\ \A d \in Days :
          []((ctx.state = "IN_TRADE" /\ now.day = d) =>
                ([]~FlattenCycle(d) \/ <>FlatBeforeClose(d)))
    /\ [](\A d \in Days : FlattenCycle(d) => FlatBeforeClose(d))

\* a flatten-window cycle on the second day found a long position whose
\* entry was that day's and closed the books on it with a failed exit order
C31_Witness ==
    /\ FlattenCycle(1) /\ FlatBeforeClose(1)
    /\ cyc.pre.state = "IN_TRADE" /\ cyc.pre.direction = Some("long")
    /\ ~cfg.dry_run /\ cyc.exit_order # None /\ ~Val(cyc.exit_order).filled
    /\ led.entries = 1

=============================================================================
